---- MODULE Spec2Model ----
(***************************************************************************)
(* A model of bevy-extrude-mesh: the cross-section builder                 *)
(* (ExtrudeShape::from_mesh), the sweep (extrude) and the cubic Bezier     *)
(* curve with its arc-length table (BezierCurve).                          *)
(*                                                                         *)
(* Vectors of the code are sequences; the code's 0-based position k is the *)
(* sequence position k + 1.                                                *)
(*                                                                         *)
(* SpecMesh    from_mesh on every small index buffer                       *)
(* SpecExtrude extrude, loop iteration by loop iteration, on the shapes    *)
(*             from_mesh builds from fans and irregular meshes             *)
(* SpecCurve   a BezierCurve built by new(points, Some(len)) and every     *)
(*             sequence of calls on it                                     *)
(***************************************************************************)
EXTENDS Integers, Sequences, FiniteSets, TLC

VARIABLES
    \* ExtrudeShape::from_mesh
    in_mesh,        \* the input mesh: vertex count, index buffer, UV attribute
    mesh_pc,        \* "input" | "built" | "panic"
    shape,          \* the ExtrudeShape built (vertices, normals, face_indices, edges, u_coords)
    \* extrude
    path,           \* the path handed to extrude: a sequence of oriented points
    build,          \* "debug" (overflow checks on) | "release" (wrapping arithmetic)
    pc,             \* "idle" | "call" | "fill" | "stitch" | "done" | "panic"
    failure,        \* the panic message, "" when none
    ring_i,         \* the vertex loop's i (extrude.rs:101)
    seg_i,          \* the index loop's i (extrude.rs:115)
    edge_j,         \* the index loop's j (extrude.rs:117)
    tri_index,      \* the write cursor (extrude.rs:114)
    mesh_vertices, mesh_normals, mesh_uvs,
    mesh_indices,   \* the raw index buffer, reversed in place at extrude.rs:132
    out_mesh,       \* the Mesh returned
    \* BezierCurve
    curve,          \* the BezierCurve: points, sampled_lengths, arc_lengths, len, length
    calculated,     \* whether one of the two calculate_arc_lengths operations has run
    ret             \* the last call on the curve and what it returned

vars == <<in_mesh, mesh_pc, shape, path, build, pc, failure, ring_i, seg_i, edge_j,
          tri_index, mesh_vertices, mesh_normals, mesh_uvs, mesh_indices, out_mesh,
          curve, calculated, ret>>

curveVars == <<curve, calculated, ret>>
extrudeVars == <<path, build, pc, failure, ring_i, seg_i, edge_j, tri_index,
                 mesh_vertices, mesh_normals, mesh_uvs, mesh_indices, out_mesh>>

-----------------------------------------------------------------------------
(* Bounds *)

\* index values of the input meshes of SpecMesh are 0 .. NumVertexIds - 1
NumVertexIds == 3
\* the index buffers of SpecMesh have at most MaxIndexLen entries
MaxIndexLen == 6
\* the fans of SpecExtrude have at most MaxFanTriangles triangles
MaxFanTriangles == 3
\* the paths of SpecExtrude have at most MaxPathLen oriented points
MaxPathLen == 3
\* the curves of SpecCurve are built with Some(len), len in 0 .. MaxLen
MaxLen == 3
\* map is called with u = k / UDen, k in 0 .. UDen
UDen == 4
\* sample and get_oriented_point are called with t = k / TDen, k in -1 .. TDen + 1
TDen == 2
\* generate_path is called with 0 .. MaxSubdivisions subdivisions; the f32
\* unit of 2^-27 is exact for steps of at least 2^-4, up to 16 subdivisions
MaxSubdivisions == 12

-----------------------------------------------------------------------------
(* Helpers on sequences *)

Contains(s, x) == \E k \in 1..Len(s) : s[k] = x

Reverse(s) == [k \in 1..Len(s) |-> s[Len(s) + 1 - k]]

Zeros(n, z) == [k \in 1..n |-> z]

-----------------------------------------------------------------------------
(* ExtrudeShape::from_mesh *)

\* a variant of EmitEdges whose closing edge runs (a,c) instead of (c,a)
EmitEdgesClosingEdgeFlipped(index_array) ==
    [k \in 1..Len(index_array) |->
        LET t == (k - 1) \div 3
            e == (k - 1) % 3
        IN  IF e = 0 THEN <<index_array[3*t + 1], index_array[3*t + 2]>>
            ELSE IF e = 1 THEN <<index_array[3*t + 2], index_array[3*t + 3]>>
            ELSE <<index_array[3*t + 1], index_array[3*t + 3]>>]

\* extrude.rs:26-35: the three oriented edges of each triangle, in order.
\* Defined for an index buffer whose length is a multiple of 3.
EmitEdges(index_array) ==
    [k \in 1..Len(index_array) |->
        LET t == (k - 1) \div 3
            e == (k - 1) % 3
        IN  IF e = 0 THEN <<index_array[3*t + 1], index_array[3*t + 2]>>
            ELSE IF e = 1 THEN <<index_array[3*t + 2], index_array[3*t + 3]>>
            ELSE <<index_array[3*t + 3], index_array[3*t + 1]>>]

Opposite(edge) == <<edge[2], edge[1]>>

\* a variant of IsRemoved that looks only at the edges dropped so far
IsRemovedOnlyByRemovedList(edge, removed, edges_clone) ==
    Contains(removed, Opposite(edge))

\* extrude.rs:41: the closure's test
IsRemoved(edge, removed, edges_clone) ==
    \/ Contains(removed, Opposite(edge))
    \/ Contains(edges_clone, Opposite(edge))

\* extrude.rs:38-47: Vec::retain visits the edges in order; the closure pushes
\* what it drops on `removed`. st = [kept, removed].
RECURSIVE RetainFrom(_, _, _, _)
RetainFrom(edges, k, edges_clone, st) ==
    IF k > Len(edges) THEN st
    ELSE IF IsRemoved(edges[k], st.removed, edges_clone)
         THEN RetainFrom(edges, k + 1, edges_clone,
                         [kept |-> st.kept, removed |-> Append(st.removed, edges[k])])
         ELSE RetainFrom(edges, k + 1, edges_clone,
                         [kept |-> Append(st.kept, edges[k]), removed |-> st.removed])

RetainOutline(edges) ==
    RetainFrom(edges, 1, edges, [kept |-> <<>>, removed |-> <<>>]).kept

\* extrude.rs:48: flat_map(|edge| [edge.0, edge.1])
Flatten(edges) ==
    [k \in 1..(2 * Len(edges)) |-> edges[(k + 1) \div 2][2 - (k % 2)]]

\* Mesh::attribute(ATTRIBUTE_UV_0) then VertexAttributeValues::as_float3
\* (extrude.rs:51-57): as_float3 answers only a Float32x3 attribute.
UCoords(mesh) ==
    IF mesh.uv = "Float32x3" THEN [k \in 1..mesh.vertex_count |-> <<"u", k - 1>>]
    ELSE <<>>

\* extrude.rs:61-73: vertex i's normal is built from the edge normals of
\* vertex i and vertex (V + i - 1) % V, in vertex-array order.
VertexNormals(vertex_count) ==
    [k \in 1..vertex_count |->
        <<"normal", k - 1, (vertex_count + (k - 1) - 1) % vertex_count>>]

\* extrude.rs:29-33 index index_array[i+1], index_array[i+2]: out of bounds
\* when the length is no multiple of 3.
FromMeshPanics(mesh) == Len(mesh.indices) % 3 # 0

FromMesh(mesh) ==
    [vertices     |-> [k \in 1..mesh.vertex_count |-> <<"vertex", k - 1>>],
     normals      |-> VertexNormals(mesh.vertex_count),
     face_indices |-> mesh.indices,
     edges        |-> Flatten(RetainOutline(EmitEdges(mesh.indices))),
     u_coords     |-> UCoords(mesh)]

\* the values of in_mesh and shape while from_mesh is not in play
NoMesh == [vertex_count |-> 0, indices |-> <<>>, uv |-> "none"]
NoShape == [vertices |-> <<>>, normals |-> <<>>, face_indices |-> <<>>,
            edges |-> <<>>, u_coords |-> <<>>]

-----------------------------------------------------------------------------
(* SpecMesh: from_mesh called on an input mesh *)

\* the sequences over S of length at most n
SeqsUpTo(S, n) == UNION {[1..m -> S] : m \in 0..n}

InputMeshes ==
    [vertex_count : {NumVertexIds},
     indices      : SeqsUpTo(0..(NumVertexIds - 1), MaxIndexLen),
     uv           : {"none", "Float32x2"}]

NoCurve == [points |-> <<>>, sampled_lengths |-> <<>>, arc_lengths |-> <<>>,
            len |-> 0, length |-> 0]
NoCall == [op |-> "none"]

CurveIdle ==
    /\ curve = NoCurve
    /\ calculated = FALSE
    /\ ret = NoCall

ExtrudeIdle ==
    /\ path = <<>>
    /\ build = "debug"
    /\ pc = "idle"
    /\ failure = ""
    /\ ring_i = 0
    /\ seg_i = 0
    /\ edge_j = 0
    /\ tri_index = 0
    /\ mesh_vertices = <<>>
    /\ mesh_normals = <<>>
    /\ mesh_uvs = <<>>
    /\ mesh_indices = <<>>
    /\ out_mesh = [indices |-> <<>>, positions |-> <<>>, normals |-> <<>>,
                   has_uvs |-> FALSE, uvs |-> <<>>]

InitMesh ==
    /\ CurveIdle
    /\ in_mesh \in InputMeshes
    /\ mesh_pc = "input"
    /\ shape = NoShape
    /\ ExtrudeIdle

\* extrude.rs:15-82
FromMeshCall ==
    /\ UNCHANGED curveVars
    /\ mesh_pc = "input"
    /\ IF FromMeshPanics(in_mesh)
       THEN /\ mesh_pc' = "panic"
            /\ shape' = shape
       ELSE /\ mesh_pc' = "built"
            /\ shape' = FromMesh(in_mesh)
    /\ UNCHANGED <<in_mesh, extrudeVars>>

NextMesh == FromMeshCall

SpecMesh == InitMesh /\ [][NextMesh]_vars

-----------------------------------------------------------------------------
(* extrude *)

\* usize values are kept as a representative of their residue modulo 2^64:
\* r >= 0 stands for r, r < 0 for 2^64 + r.  Sums, differences and products
\* of representatives are the representatives of the wrapped results.
IsHuge(x) == x < 0

\* unsigned a < b
ULess(a, b) == IF IsHuge(a) = IsHuge(b) THEN a < b ELSE IsHuge(b)

\* extrude.rs:87
Segments(p) == Len(p) - 1

\* a variant of TriCount that reserves no cap triangles
TriCountNoCaps(s, segments) == Len(s.edges) * segments

\* extrude.rs:90
TriCount(s, segments) == Len(s.edges) * segments + 2 * Len(s.face_indices)

\* extrude.rs:91
IndexCount(s, segments) == TriCount(s, segments) * 3

\* a variant of VertexCount that sizes the buffers for the segments, not the rings
VertexCountPerSegment(s, p) == Len(s.vertices) * Segments(p)

\* extrude.rs:89
VertexCount(s, p) == Len(s.vertices) * Len(p)

Zero3 == <<0, 0, 0>>
Zero2 == <<0, 0>>

\* a direction moved like a point: rotated and translated
LocalToWorldDirectionTranslated(point, d) ==
    <<"local_to_world", point.position, point.rotation, d>>

\* bezier.rs:237-239 and 245-247, applied symbolically
LocalToWorld(point, v) == <<"local_to_world", point.position, point.rotation, v>>
LocalToWorldDirection(point, d) == <<"local_to_world_direction", point.rotation, d>>

\* extrude.rs:85-98: the sizes and the zeroed buffers.  path.len() - 1
\* overflows on an empty path: a panic with overflow checks, a wrap to
\* 2^64 - 1 without.  vec![0u32; n] with n * 4 > isize::MAX panics.
ExtrudeBegin ==
    /\ UNCHANGED curveVars
    /\ pc = "call"
    /\ IF Len(path) = 0 /\ build = "debug"
       THEN /\ pc' = "panic"
            /\ failure' = "attempt to subtract with overflow"
            /\ UNCHANGED <<mesh_vertices, mesh_normals, mesh_uvs, mesh_indices>>
       ELSE IF IsHuge(IndexCount(shape, Segments(path)))
       THEN /\ pc' = "panic"
            /\ failure' = "capacity overflow"
            /\ UNCHANGED <<mesh_vertices, mesh_normals, mesh_uvs, mesh_indices>>
       ELSE /\ pc' = "fill"
            /\ failure' = ""
            /\ mesh_vertices' = Zeros(VertexCount(shape, path), Zero3)
            /\ mesh_indices' = Zeros(IndexCount(shape, Segments(path)), 0)
            /\ mesh_normals' = Zeros(VertexCount(shape, path), Zero3)
            /\ mesh_uvs' = Zeros(VertexCount(shape, path), Zero2)
    /\ ring_i' = 0
    /\ UNCHANGED <<in_mesh, mesh_pc, shape, path, build, seg_i, edge_j, tri_index, out_mesh>>

\* extrude.rs:101-111: one iteration of the outer loop writes ring i
InRing(k, i, V) == i * V < k /\ k <= (i + 1) * V

FillRing ==
    /\ UNCHANGED curveVars
    /\ pc = "fill"
    /\ ring_i < Len(path)
    /\ LET V == Len(shape.vertices)
           point == path[ring_i + 1]
           offset == ring_i * V
       IN  /\ mesh_vertices' =
                [k \in 1..Len(mesh_vertices) |->
                    IF InRing(k, ring_i, V)
                    THEN LocalToWorld(point, shape.vertices[k - offset])
                    ELSE mesh_vertices[k]]
           /\ mesh_normals' =
                [k \in 1..Len(mesh_normals) |->
                    IF InRing(k, ring_i, V)
                    THEN LocalToWorldDirection(point, shape.normals[k - offset])
                    ELSE mesh_normals[k]]
           /\ mesh_uvs' =
                [k \in 1..Len(mesh_uvs) |->
                    IF InRing(k, ring_i, V) /\ Len(shape.u_coords) # 0
                    THEN <<shape.u_coords[k - offset], point.v_coordinate>>
                    ELSE mesh_uvs[k]]
    /\ ring_i' = ring_i + 1
    /\ UNCHANGED <<in_mesh, mesh_pc, shape, path, build, pc, failure, seg_i, edge_j,
                   tri_index, mesh_indices, out_mesh>>

\* extrude.rs:113-115: the vertex loop is over; the index loop starts
StitchBegin ==
    /\ UNCHANGED curveVars
    /\ pc = "fill"
    /\ ring_i = Len(path)
    /\ pc' = "stitch"
    /\ tri_index' = 0
    /\ seg_i' = 0
    /\ edge_j' = 0
    /\ UNCHANGED <<in_mesh, mesh_pc, shape, path, build, failure, ring_i,
                   mesh_vertices, mesh_normals, mesh_uvs, mesh_indices, out_mesh>>

\* the six indices taken one ring further along the path
QuadIndicesNextRing(i, j) ==
    LET V == Len(shape.vertices)
        offset == (i + 1) * V
        a == offset + shape.edges[j + 1] + V
        b == offset + shape.edges[j + 1]
        c == offset + shape.edges[j + 2]
        d == offset + shape.edges[j + 2] + V
    IN  <<a, b, c, c, d, a>>

\* extrude.rs:116-128: the six indices of segment i, edge pair at j
QuadIndices(i, j) ==
    LET V == Len(shape.vertices)
        offset == i * V
        a == offset + shape.edges[j + 1] + V
        b == offset + shape.edges[j + 1]
        c == offset + shape.edges[j + 2]
        d == offset + shape.edges[j + 2] + V
    IN  <<a, b, c, c, d, a>>

\* extrude.rs:115-130: one iteration of the inner loop.  A write at
\* tri_index >= mesh_indices.len() panics.
StitchQuad ==
    /\ UNCHANGED curveVars
    /\ pc = "stitch"
    /\ ULess(seg_i, Segments(path))
    /\ edge_j < Len(shape.edges)
    /\ IF tri_index + 6 > Len(mesh_indices)
       THEN /\ pc' = "panic"
            /\ failure' = "index out of bounds"
            /\ UNCHANGED <<mesh_indices, tri_index, seg_i, edge_j>>
       ELSE /\ mesh_indices' =
                [k \in 1..Len(mesh_indices) |->
                    IF tri_index < k /\ k <= tri_index + 6
                    THEN QuadIndices(seg_i, edge_j)[k - tri_index]
                    ELSE mesh_indices[k]]
            /\ tri_index' = tri_index + 6
            /\ IF edge_j + 2 < Len(shape.edges)
               THEN edge_j' = edge_j + 2 /\ seg_i' = seg_i
               ELSE edge_j' = 0 /\ seg_i' = seg_i + 1
            /\ UNCHANGED <<pc, failure>>
    /\ UNCHANGED <<in_mesh, mesh_pc, shape, path, build, ring_i,
                   mesh_vertices, mesh_normals, mesh_uvs, out_mesh>>

\* extrude.rs:115-117 with no edge to visit: the outer loop runs its
\* remaining iterations (2^64 - 1 of them after the wrap of an empty path)
\* and the inner loop never enters
StitchNoEdges ==
    /\ UNCHANGED curveVars
    /\ pc = "stitch"
    /\ ULess(seg_i, Segments(path))
    /\ Len(shape.edges) = 0
    /\ seg_i' = Segments(path)
    /\ UNCHANGED <<in_mesh, mesh_pc, shape, path, build, pc, failure, ring_i, edge_j,
                   tri_index, mesh_vertices, mesh_normals, mesh_uvs, mesh_indices,
                   out_mesh>>

\* a variant of Finished that returns the buffer as written
FinishedNotReversed(indices) == indices

\* extrude.rs:132
Finished(indices) == Reverse(indices)

\* extrude.rs:132-143: the index loop is over; reverse, build the Mesh,
\* return it
ExtrudeReturn ==
    /\ UNCHANGED curveVars
    /\ pc = "stitch"
    /\ ~ULess(seg_i, Segments(path))
    /\ mesh_indices' = Finished(mesh_indices)
    /\ out_mesh' = [indices   |-> Finished(mesh_indices),
                    positions |-> mesh_vertices,
                    normals   |-> mesh_normals,
                    has_uvs   |-> Len(shape.u_coords) # 0,
                    uvs       |-> IF Len(shape.u_coords) # 0 THEN mesh_uvs ELSE <<>>]
    /\ pc' = "done"
    /\ UNCHANGED <<in_mesh, mesh_pc, shape, path, build, failure, ring_i, seg_i, edge_j,
                   tri_index, mesh_vertices, mesh_normals, mesh_uvs>>

\* Input meshes of the sweep: the fan of n triangles around vertex 0
\* (n = 1 the triangle, n = 2 the square), and irregular ones.
Fan(n) == [k \in 1..(3 * n) |->
              LET t == (k - 1) \div 3
                  e == (k - 1) % 3
              IN  IF e = 0 THEN 0 ELSE t + e]

\* uv = "Float32x3": a mesh whose attribute under the id of ATTRIBUTE_UV_0
\* holds one [f32; 3] per vertex, the only kind extrude.rs:54 accepts
FanMeshes ==
    {[vertex_count |-> n + 2, indices |-> Fan(n), uv |-> uv] :
        n \in 0..MaxFanTriangles, uv \in {"none", "Float32x2", "Float32x3"}}

IrregularMeshes ==
    { [vertex_count |-> 4, indices |-> <<0, 1, 2, 0, 1, 3>>, uv |-> "none"],
      [vertex_count |-> 3, indices |-> <<0, 1, 2, 0, 1, 2>>, uv |-> "none"],
      [vertex_count |-> 3, indices |-> <<0, 1, 2, 1, 0, 2>>, uv |-> "none"],
      [vertex_count |-> 5, indices |-> <<0, 1, 2>>, uv |-> "none"],
      [vertex_count |-> 2, indices |-> <<0, 0, 1>>, uv |-> "none"],
      [vertex_count |-> 2, indices |-> <<0, 1, 2>>, uv |-> "none"] }

SweepMeshes == FanMeshes \cup IrregularMeshes

OrientedPoint(k) == [position |-> <<"position", k>>, rotation |-> <<"rotation", k>>,
                     v_coordinate |-> <<"v", k>>]

Paths == {[k \in 1..n |-> OrientedPoint(k - 1)] : n \in 0..MaxPathLen}

InitExtrude ==
    /\ CurveIdle
    /\ in_mesh \in SweepMeshes
    /\ mesh_pc = "built"
    /\ shape = FromMesh(in_mesh)
    /\ path \in Paths
    /\ build \in {"debug", "release"}
    /\ pc = "call"
    /\ failure = ""
    /\ ring_i = 0
    /\ seg_i = 0
    /\ edge_j = 0
    /\ tri_index = 0
    /\ mesh_vertices = <<>>
    /\ mesh_normals = <<>>
    /\ mesh_uvs = <<>>
    /\ mesh_indices = <<>>
    /\ out_mesh = [indices |-> <<>>, positions |-> <<>>, normals |-> <<>>,
                   has_uvs |-> FALSE, uvs |-> <<>>]

NextExtrude ==
    \/ ExtrudeBegin
    \/ FillRing
    \/ StitchBegin
    \/ StitchQuad
    \/ StitchNoEdges
    \/ ExtrudeReturn

SpecExtrude == InitExtrude /\ [][NextExtrude]_vars

-----------------------------------------------------------------------------
(* Properties of extrude (SpecExtrude) *)

NumV == Len(shape.vertices)
NumE == Len(shape.edges) \div 2
NumF == Len(shape.face_indices)
NumL == Len(path)
NumS == Len(path) - 1

AllZero(s, from, to) == \A k \in from..to : s[k] = 0

\* C1: for a path of L = S + 1 >= 2 points extrude returns V*L positions,
\* V*L normals and 6*E*S + 6*F indices; the cursor writes the first 6*E*S raw
\* entries and nothing else, so the 6*F reserved cap entries stay zero.
C1_OutputSizes ==
    (NumL >= 2 /\ pc \in {"stitch", "done"}) =>
        /\ Len(mesh_vertices) = NumV * NumL
        /\ Len(mesh_normals) = NumV * NumL
        /\ Len(mesh_indices) = 6 * NumE * NumS + 6 * NumF
        /\ tri_index <= 6 * NumE * NumS
        /\ pc = "stitch" => AllZero(mesh_indices, tri_index + 1, Len(mesh_indices))
        /\ pc = "done" =>
            /\ tri_index = 6 * NumE * NumS
            /\ Len(out_mesh.positions) = NumV * NumL
            /\ Len(out_mesh.normals) = NumV * NumL
            /\ Len(out_mesh.indices) = 6 * NumE * NumS + 6 * NumF
            /\ AllZero(out_mesh.indices, 1, 6 * NumF)

C1_Witness ==
    /\ pc = "done"
    /\ NumL = 3
    /\ NumE = 4
    /\ NumF = 6
    /\ tri_index = 48
    /\ Len(out_mesh.indices) = 84
    /\ Len(out_mesh.positions) = 12

IsSquare == in_mesh.vertex_count = 4 /\ in_mesh.indices = <<0, 1, 2, 0, 2, 3>>
IsTriangle == in_mesh.vertex_count = 3 /\ in_mesh.indices = <<0, 1, 2>>

\* C2 as stated: the square along a 2-point path gives 8 vertices and 24
\* indices, the triangle along a 3-point path 9 vertices and 36 indices.
C2_ScenarioIndexCounts ==
    /\ (pc = "done" /\ IsSquare /\ NumL = 2) =>
            (Len(out_mesh.positions) = 8 /\ Len(out_mesh.indices) = 24)
    /\ (pc = "done" /\ IsTriangle /\ NumL = 3) =>
            (Len(out_mesh.positions) = 9 /\ Len(out_mesh.indices) = 36)

\* C2, amended: the returned buffer also holds the 6*F reserved cap slots;
\* the square gives 8 vertices and 24 + 36 = 60 indices, the triangle
\* 9 vertices and 36 + 18 = 54 indices.
C2_ScenarioIndexCountsWithCaps ==
    /\ (pc = "done" /\ IsSquare /\ NumL = 2) =>
            /\ NumE = 4
            /\ Len(out_mesh.positions) = 8
            /\ tri_index = 24
            /\ Len(out_mesh.indices) = 60
    /\ (pc = "done" /\ IsTriangle /\ NumL = 3) =>
            /\ NumE = 3
            /\ Len(out_mesh.positions) = 9
            /\ tri_index = 36
            /\ Len(out_mesh.indices) = 54

C2_Witness == pc = "done" /\ IsSquare /\ NumL = 2 /\ Len(out_mesh.indices) = 60

\* the six raw entries of quad q = i * E + e, from the claim's formulas
QuadWritten(raw, q) ==
    LET i == q \div NumE
        e == q % NumE
        alpha == shape.edges[2 * e + 1]
        beta == shape.edges[2 * e + 2]
        a == (i + 1) * NumV + alpha
        b == i * NumV + alpha
        c == i * NumV + beta
        d == (i + 1) * NumV + beta
    IN  /\ raw[6 * q + 1] = a
        /\ raw[6 * q + 2] = b
        /\ raw[6 * q + 3] = c
        /\ raw[6 * q + 4] = c
        /\ raw[6 * q + 5] = d
        /\ raw[6 * q + 6] = a

\* the quads are written in order: segment by segment, edge pair by edge pair
StitchedInOrder ==
    pc = "stitch" =>
        /\ tri_index % 6 = 0
        /\ NumE > 0 => tri_index = 6 * (seg_i * NumE + edge_j \div 2)
        /\ NumE = 0 => tri_index = 0
        /\ \A q \in 0..(tri_index \div 6 - 1) : QuadWritten(mesh_indices, q)

\* the return step reverses the whole raw buffer, so raw triangle r (raw
\* positions 3r .. 3r+2) is found reversed at the position len - 3r - 3,
\* a multiple of 3
ReturnReverses ==
    (pc = "stitch" /\ pc' = "done") =>
        /\ out_mesh'.indices = mesh_indices'
        /\ Len(mesh_indices') = Len(mesh_indices)
        /\ \A k \in 1..Len(mesh_indices) :
                mesh_indices'[k] = mesh_indices[Len(mesh_indices) + 1 - k]
        /\ \A r \in 0..(tri_index \div 3 - 1) :
                LET p == Len(mesh_indices) - 3 * r - 3
                IN  /\ p % 3 = 0
                    /\ mesh_indices'[p + 1] = mesh_indices[3 * r + 3]
                    /\ mesh_indices'[p + 2] = mesh_indices[3 * r + 2]
                    /\ mesh_indices'[p + 3] = mesh_indices[3 * r + 1]

\* C3: every quad (segment i, edge pair (alpha, beta)) is written as
\* a,b,c,c,d,a at six consecutive raw positions, in order, and the returned
\* buffer is the end-to-end reversal of the raw buffer.
C3_StitchThenReverse == [](StitchedInOrder) /\ [][ReturnReverses]_vars

C3_Witness ==
    /\ pc = "done"
    /\ NumL = 3
    /\ NumE = 4
    /\ tri_index = 48
    /\ out_mesh.indices[Len(out_mesh.indices)] = NumV + shape.edges[1]
    /\ out_mesh.indices[Len(out_mesh.indices) - 1] = shape.edges[1]

\* C10 as stated: a path of fewer than two points never yields a mesh
C10_MissingPath == NumL < 2 => pc # "done"

-----------------------------------------------------------------------------
(* Properties of from_mesh (SpecMesh) *)

\* the oriented edges (a,b), (b,c), (c,a) of triangle t of the input mesh
TriangleEdge(t, e) ==
    LET a == in_mesh.indices[3 * t + 1]
        b == in_mesh.indices[3 * t + 2]
        c == in_mesh.indices[3 * t + 3]
    IN  IF e = 0 THEN <<a, b>> ELSE IF e = 1 THEN <<b, c>> ELSE <<c, a>>

Emitted == [k \in 1..Len(in_mesh.indices) |-> TriangleEdge((k - 1) \div 3, (k - 1) % 3)]

HasOpposite(e) == \E k \in 1..Len(Emitted) : Emitted[k] = <<e[2], e[1]>>

Survives(e) == ~HasOpposite(e)

\* the outline read back from the flattened edges [a0,b0,a1,b1,...]
Outline == [k \in 1..(Len(shape.edges) \div 2) |->
                <<shape.edges[2 * k - 1], shape.edges[2 * k]>>]

Count(s, x) == Cardinality({k \in 1..Len(s) : s[k] = x})

\* C4: the outline is the emitted list (a,b),(b,c),(c,a) per triangle, in
\* order, without the edges whose opposite is emitted anywhere, flattened.
C4_OutlineIsFilteredEmitted ==
    mesh_pc = "built" =>
        /\ Len(shape.edges) % 2 = 0
        /\ Outline = SelectSeq(Emitted, Survives)

C4_Witness ==
    /\ mesh_pc = "built"
    /\ Len(in_mesh.indices) = 6
    /\ Len(Outline) = 2
    /\ \E k \in 1..Len(Emitted) : HasOpposite(Emitted[k])

\* C5 as stated: whatever the index list, no oriented edge is twice in the
\* outline and no edge whose opposite is emitted is in it.
C5_OutlineEdgesUnique ==
    mesh_pc = "built" =>
        /\ \A k, m \in 1..Len(Outline) : Outline[k] = Outline[m] => k = m
        /\ \A k \in 1..Len(Outline) : ~HasOpposite(Outline[k])

\* C5, amended: an oriented edge is in the outline at most as often as the
\* triangles emit it, so at most once when no two triangles emit the same
\* oriented edge; an edge whose opposite is emitted is never in it.
C5_OutlineEdgesAsEmitted ==
    mesh_pc = "built" =>
        /\ \A k \in 1..Len(Outline) :
                /\ Count(Outline, Outline[k]) <= Count(Emitted, Outline[k])
                /\ ~HasOpposite(Outline[k])
        /\ (\A k, m \in 1..Len(Emitted) : Emitted[k] = Emitted[m] => k = m)
                => (\A k, m \in 1..Len(Outline) : Outline[k] = Outline[m] => k = m)

C5_Witness ==
    /\ mesh_pc = "built"
    /\ in_mesh.indices = <<0, 1, 2, 0, 1, 2>>
    /\ Count(Outline, <<0, 1>>) = 2

-----------------------------------------------------------------------------
(* f32 arithmetic on [0, 2), exact: a value is an integer count of units of *)
(* 2^-27, the spacing of f32 in [2^-4, 2^-3); f32 keeps 24 significant bits *)
(* and rounds to nearest, ties to even.                                     *)

F32One == 2^27
F32Inf == 2^30

\* the spacing of f32 at x: 2^(floor(log2 x) - 23), at least one unit
RECURSIVE UlpFrom(_, _)
UlpFrom(x, q) == IF x < 2^24 * q THEN q ELSE UlpFrom(x, 2 * q)

\* the f32 nearest to num/den units (den > 0), ties to even
F32Nearest(num, den) ==
    LET q == UlpFrom(num \div den, 1)
        lo == ((num \div den) \div q) * q
        rest == num - lo * den
    IN  IF 2 * rest < q * den THEN lo
        ELSE IF 2 * rest > q * den THEN lo + q
        ELSE IF (lo \div q) % 2 = 0 THEN lo ELSE lo + q

\* bezier.rs:116 (i += step) and bezier.rs:46 (f += step)
F32Add(a, b) == IF a = F32Inf \/ b = F32Inf THEN F32Inf ELSE F32Nearest(a + b, 1)

\* bezier.rs:110 (1. / subdivisions as f32) and bezier.rs:38 (1. / 10.)
F32Reciprocal(n) == IF n = 0 THEN F32Inf ELSE F32Nearest(F32One, n)

-----------------------------------------------------------------------------
(* BezierCurve.  Control points are points of the integer lattice.  The     *)
(* position at t = i/n is kept times n^3, which is an integer; a chord      *)
(* length is the square root rounded down to that unit (f32 rounds it to    *)
(* its own grid).                                                           *)

\* bezier.rs:54-59 and 73-81 at t = i/n, times n^3
PositionScaled(points, i, n) ==
    [d \in 1..3 |->
        (n - i) * (n - i) * (n - i) * points[1][d]
        + 3 * (n - i) * (n - i) * i * points[2][d]
        + 3 * (n - i) * i * i * points[3][d]
        + i * i * i * points[4][d]]

\* the caller's height functions h(x, z); each is linear, so it commutes
\* with the scaling of the positions
HeightFunctions == {"zero", "x_minus_z"}

Height(h, x, z) == IF h = "zero" THEN 0 ELSE x - z

\* bezier.rs:145 and 150: point.y = custom_height_function(point.x, point.z);
\* h = "none" is calculate_arc_lengths, which keeps y
WithHeight(h, point) ==
    IF h = "none" THEN point
    ELSE <<point[1], Height(h, point[1], point[3]), point[3]>>

RECURSIVE ISqrtBetween(_, _, _)
ISqrtBetween(x, lo, hi) ==
    IF lo >= hi THEN lo
    ELSE LET mid == (lo + hi + 1) \div 2
         IN  IF mid * mid <= x THEN ISqrtBetween(x, mid, hi)
             ELSE ISqrtBetween(x, lo, mid - 1)

\* f32::sqrt, rounded down to the unit
Sqrt(x) == ISqrtBetween(x, 0, 46340)

\* bezier.rs:166-167 (and 42: (pt - prev_point).length())
ChordLength(old_point, point) ==
    LET dx == old_point[1] - point[1]
        dy == old_point[2] - point[2]
        dz == old_point[3] - point[3]
    IN  Sqrt(dx * dx + dy * dy + dz * dz)

\* bezier.rs:164-170 (and 148-155): iterations i ..= len of the loop.
\* st = [old_point, clen, arc_lengths]
RECURSIVE ArcLoop(_, _, _, _, _)
ArcLoop(points, len, h, i, st) ==
    IF i > len THEN st
    ELSE LET point == WithHeight(h, PositionScaled(points, i, len))
             clen == st.clen + ChordLength(st.old_point, point)
         IN  ArcLoop(points, len, h, i + 1,
                     [old_point   |-> point,
                      clen        |-> clen,
                      arc_lengths |-> [st.arc_lengths EXCEPT ![i + 1] = clen]])

\* a variant of Calculated that stores each chord instead of the running sum
RECURSIVE ChordLoop(_, _, _, _, _)
ChordLoop(points, len, h, i, st) ==
    IF i > len THEN st
    ELSE LET point == WithHeight(h, PositionScaled(points, i, len))
             chord == ChordLength(st.old_point, point)
         IN  ChordLoop(points, len, h, i + 1,
                       [old_point   |-> point,
                        clen        |-> st.clen + chord,
                        arc_lengths |-> [st.arc_lengths EXCEPT ![i + 1] = chord]])

CalculatedChordsOnly(c, h) ==
    LET st == ChordLoop(c.points, c.len, h, 1,
                        [old_point   |-> WithHeight(h, PositionScaled(c.points, 0, c.len)),
                         clen        |-> 0,
                         arc_lengths |-> c.arc_lengths])
    IN  [c EXCEPT !.arc_lengths = st.arc_lengths, !.length = st.clen]

\* bezier.rs:160-173 (h = "none") and 143-158: the curve after the call
Calculated(c, h) ==
    LET st == ArcLoop(c.points, c.len, h, 1,
                      [old_point   |-> WithHeight(h, PositionScaled(c.points, 0, c.len)),
                       clen        |-> 0,
                       arc_lengths |-> c.arc_lengths])
    IN  [c EXCEPT !.arc_lengths = st.arc_lengths, !.length = st.clen]

\* bezier.rs:39-47: how often the loop `while f < 1.` runs, f starting at
\* step and growing by step in f32
RECURSIVE LoopCount(_, _, _)
LoopCount(f, step, n) ==
    IF f < F32One THEN LoopCount(F32Add(f, step), step, n + 1) ELSE n

\* bezier.rs:40-47: the pushes of the loop, the k-th at f ~ k/10
\* (positions times 10^3).  st = [prev_point, total, samples]
RECURSIVE SampleLoop(_, _, _, _)
SampleLoop(points, k, count, st) ==
    IF k > count THEN st
    ELSE LET pt == PositionScaled(points, k, 10)
             total == st.total + ChordLength(pt, st.prev_point)
         IN  SampleLoop(points, k + 1, count,
                        [prev_point |-> pt, total |-> total,
                         samples |-> Append(st.samples, total)])

\* bezier.rs:32-52: vec![0f32; 10], the loop's pushes, the push for t = 1
GenerateSamples(points) ==
    LET step == F32Reciprocal(10)
        st == SampleLoop(points, 1, LoopCount(step, step, 0),
                         [prev_point |-> PositionScaled(points, 0, 10),
                          total      |-> 0,
                          samples    |-> Zeros(10, 0)])
        pt == PositionScaled(points, 10, 10)
    IN  Append(st.samples, st.total + ChordLength(pt, st.prev_point))

\* bezier.rs:18-30: BezierCurve::new(points, Some(len)).  new(points, None)
\* runs the same code with len = DEFAULT_LEN = 100 (bezier.rs:5).
New(points, len) ==
    [points          |-> points,
     sampled_lengths |-> GenerateSamples(points),
     arc_lengths     |-> Zeros(len + 1, 0),
     len             |-> len,
     length          |-> 0]

\* the result of a call that returns an f32: a value num/den, or NaN, or an
\* infinity, or no return at all (a panic)
Value(num, den) == [kind |-> "value", num |-> num, den |-> den]
NaN == [kind |-> "nan", num |-> 0, den |-> 0]
Infinity == [kind |-> "inf", num |-> 0, den |-> 0]
Panic == [kind |-> "panic", num |-> 0, den |-> 0]

\* f32 division of two non-negative values num/den (den >= 0)
F32Quotient(num, den) ==
    IF den # 0 THEN Value(num, den)
    ELSE IF num = 0 THEN NaN ELSE Infinity

\* bezier.rs:177-187: the binary search; target = tnum / tden.  The result
\* is the last index probed.
RECURSIVE BinarySearch(_, _, _, _, _, _)
BinarySearch(arc, tnum, tden, low, high, index) ==
    IF low < high
    THEN LET mid == low + (high - low) \div 2
         IN  IF arc[mid + 1] * tden < tnum
             THEN BinarySearch(arc, tnum, tden, mid + 1, high, mid)
             ELSE BinarySearch(arc, tnum, tden, low, mid, mid)
    ELSE index

\* a variant of StepBack that never steps back
StepBackNever(arc, tnum, tden, index) == index

\* bezier.rs:188-190: index -= 1 on a strict overshoot (-1: usize underflow,
\* a panic there or at the next indexing)
StepBack(arc, tnum, tden, index) ==
    IF arc[index + 1] * tden > tnum THEN index - 1 ELSE index

\* bezier.rs:175-198: map(u), u = un / ud.  The answer (index + f) / len is
\* kept as index, f = f_num / f_den and the f32 quotient.
Map(c, un, ud) ==
    LET arc == c.arc_lengths
        tnum == un * arc[c.len + 1]
        index == StepBack(arc, tnum, ud,
                          BinarySearch(arc, tnum, ud, 0, c.len, 0))
    IN  IF index < 0 THEN [result |-> Panic, index |-> index, f_num |-> 0, f_den |-> 1]
        ELSE IF arc[index + 1] * ud = tnum
        THEN [result |-> F32Quotient(index, c.len),
              index |-> index, f_num |-> 0, f_den |-> 1]
        ELSE IF index + 1 > c.len
        THEN [result |-> Panic, index |-> index, f_num |-> 0, f_den |-> 1]
        ELSE LET f_num == tnum - arc[index + 1] * ud
                 f_den == (arc[index + 2] - arc[index + 1]) * ud
             IN  [result |-> IF f_den <= 0 THEN F32Quotient(f_num, 0)
                             ELSE F32Quotient(index * f_den + f_num, f_den * c.len),
                  index |-> index, f_num |-> f_num, f_den |-> f_den]

\* bezier.rs:200-218: sample(t), t = tn / td (td > 0)
Sample(c, tn, td) ==
    LET s == c.sampled_lengths
        len == Len(s)
        fnum == tn * (len - 1)
        id_lower == fnum \div td
        id_upper == -((-fnum) \div td)
    IN  IF len = 1 THEN Value(s[1], 1)
        ELSE IF id_upper >= len THEN Value(s[len], 1)
        ELSE IF id_lower < 0 THEN Value(s[1], 1)
        ELSE Value(s[id_lower + 1] * td
                   + (s[id_upper + 1] - s[id_lower + 1]) * (fnum - id_lower * td), td)

\* bezier.rs:103-107 and 83-101: the position times td^3, the frame named by
\* its parameter, v = sample(t)
GetOrientedPoint(c, tn, td) ==
    [position     |-> PositionScaled(c.points, tn, td),
     rotation     |-> <<"orientation", tn, td>>,
     v_coordinate |-> Sample(c, tn, td)]

\* bezier.rs:103-107 at an f32 parameter t: the weights of calculate_point
\* are (1,0,0,0) at t = 0 and (0,0,0,1) at t = 1
OrientedPointAt(c, t) ==
    [t        |-> t,
     position |-> IF t = 0 THEN c.points[1]
                  ELSE IF t = F32One THEN c.points[4]
                  ELSE <<"position", t>>]

\* bezier.rs:113-117
RECURSIVE PathLoop(_, _, _, _)
PathLoop(c, i, step, result) ==
    IF i < F32One
    THEN PathLoop(c, F32Add(i, step), step, Append(result, OrientedPointAt(c, i)))
    ELSE result

\* bezier.rs:109-122
GeneratePath(c, subdivisions) ==
    Append(PathLoop(c, 0, F32Reciprocal(subdivisions), <<>>), OrientedPointAt(c, F32One))

-----------------------------------------------------------------------------
(* SpecCurve: a BezierCurve and the calls on it *)

\* control points are drawn from three lattice points; with (0,0,0),
\* (-1,2,1), (0,0,0), (3,-6,-3) the position at t = 1/2 is the position at
\* t = 0, a table with a flat cell
Lattice == {<<0, 0, 0>>, <<-1, 2, 1>>, <<3, -6, -3>>}

MeshIdle ==
    /\ in_mesh = NoMesh
    /\ mesh_pc = "idle"
    /\ shape = NoShape

InitCurve ==
    /\ MeshIdle
    /\ ExtrudeIdle
    /\ \E points \in [1..4 -> Lattice], len \in 0..MaxLen :
            curve = New(points, len)
    /\ calculated = FALSE
    /\ ret = [op |-> "new", arg |-> <<>>, value |-> <<>>]

\* bezier.rs:160-173
CalculateArcLengths ==
    /\ curve' = Calculated(curve, "none")
    /\ calculated' = TRUE
    /\ ret' = [op |-> "calculate_arc_lengths", arg |-> <<>>, value |-> <<>>]
    /\ UNCHANGED <<in_mesh, mesh_pc, shape, extrudeVars>>

\* bezier.rs:143-158
CalculateArcLengthsWithCustomHeightFunction ==
    /\ \E h \in HeightFunctions :
        /\ curve' = Calculated(curve, h)
        /\ ret' = [op |-> "calculate_arc_lengths_with_custom_height_function",
                   arg |-> <<h>>, value |-> <<>>]
    /\ calculated' = TRUE
    /\ UNCHANGED <<in_mesh, mesh_pc, shape, extrudeVars>>

\* bezier.rs:175-198
MapCall ==
    /\ \E un \in 0..UDen :
        ret' = [op |-> "map", arg |-> <<un, UDen>>, value |-> Map(curve, un, UDen)]
    /\ UNCHANGED <<in_mesh, mesh_pc, shape, extrudeVars, curve, calculated>>

\* bezier.rs:200-218
SampleCall ==
    /\ \E tn \in (-1)..(TDen + 1) :
        ret' = [op |-> "sample", arg |-> <<tn, TDen>>, value |-> Sample(curve, tn, TDen)]
    /\ UNCHANGED <<in_mesh, mesh_pc, shape, extrudeVars, curve, calculated>>

\* bezier.rs:103-107
GetOrientedPointCall ==
    /\ \E tn \in (-1)..(TDen + 1) :
        ret' = [op |-> "get_oriented_point", arg |-> <<tn, TDen>>,
                value |-> GetOrientedPoint(curve, tn, TDen)]
    /\ UNCHANGED <<in_mesh, mesh_pc, shape, extrudeVars, curve, calculated>>

\* bezier.rs:109-122
GeneratePathCall ==
    /\ \E subdivisions \in 0..MaxSubdivisions :
        ret' = [op |-> "generate_path", arg |-> <<subdivisions>>,
                value |-> GeneratePath(curve, subdivisions)]
    /\ UNCHANGED <<in_mesh, mesh_pc, shape, extrudeVars, curve, calculated>>

NextCurve ==
    \/ CalculateArcLengths
    \/ CalculateArcLengthsWithCustomHeightFunction
    \/ MapCall
    \/ SampleCall
    \/ GetOrientedPointCall
    \/ GeneratePathCall

SpecCurve == InitCurve /\ [][NextCurve]_vars

-----------------------------------------------------------------------------
(* Properties of the curve (SpecCurve) *)

Arc(k) == curve.arc_lengths[k + 1]

NonDecreasing == \A k \in 0..(curve.len - 1) : Arc(k) <= Arc(k + 1)

TableAllZero == \A k \in 1..Len(curve.arc_lengths) : curve.arc_lengths[k] = 0

\* C6 as stated, read for S >= 1 (t = k/S has no meaning for S = 0):
\* generate_path(S) returns exactly S + 1 points, the first at C0, the last
\* at t = 1, position C3.
C6_PathHasSubdivisionsPlusOnePoints ==
    (ret.op = "generate_path" /\ ret.arg[1] >= 1) =>
        /\ Len(ret.value) = ret.arg[1] + 1
        /\ ret.value[1].t = 0
        /\ ret.value[1].position = curve.points[1]
        /\ ret.value[Len(ret.value)].t = F32One
        /\ ret.value[Len(ret.value)].position = curve.points[4]

Populated == Arc(0) = 0 /\ NonDecreasing /\ Arc(curve.len) > 0

\* C7: on a populated table map(u), u in [0,1], returns a value (no panic, no
\* division by zero) equal to (i + f)/N with i in 0..N-1, f in [0,1],
\* arc_lengths[i] <= u * total <= arc_lengths[i+1] and f the position of
\* u * total in that cell.
C7_MapInterpolatesInCell ==
    (ret.op = "map" /\ Populated) =>
        LET m == ret.value
            i == m.index
            un == ret.arg[1]
            ud == ret.arg[2]
            target == un * Arc(curve.len)      \* u * total, times ud
        IN  /\ m.result.kind = "value"
            /\ i \in 0..(curve.len - 1)
            /\ m.f_den > 0
            /\ 0 <= m.f_num /\ m.f_num <= m.f_den
            /\ Arc(i) * ud <= target /\ target <= Arc(i + 1) * ud
            /\ m.f_num * (Arc(i + 1) - Arc(i)) * ud = (target - Arc(i) * ud) * m.f_den
            /\ m.result.den > 0
            /\ m.result.num * (m.f_den * curve.len)
                    = (i * m.f_den + m.f_num) * m.result.den

C7_Witness ==
    /\ ret.op = "map"
    /\ Populated
    /\ BinarySearch(curve.arc_lengths, ret.arg[1] * Arc(curve.len), ret.arg[2],
                    0, curve.len, 0) = ret.value.index + 1
    /\ ret.value.index >= 1
    /\ 0 < ret.value.f_num
    /\ ret.value.f_num < ret.value.f_den

ArcTableShape ==
    /\ Len(curve.arc_lengths) = curve.len + 1
    /\ Arc(0) = 0
    /\ NonDecreasing
    /\ curve.length = Arc(curve.len)
    /\ ~calculated => TableAllZero

ArcTableWrittenOnlyByCalculate ==
    (curve.arc_lengths' # curve.arc_lengths \/ curve.length' # curve.length) =>
        ret'.op \in {"calculate_arc_lengths",
                     "calculate_arc_lengths_with_custom_height_function"}

\* C8: in every state reachable from new(points, N): N + 1 entries, entry 0
\* is 0, nondecreasing, length = arc_lengths[N], all zeros until a calculate
\* operation has run; only the two calculate operations change the table.
C8_ArcTableInvariant == [](ArcTableShape) /\ [][ArcTableWrittenOnlyByCalculate]_vars

C8_Witness ==
    /\ calculated
    /\ curve.len = 2
    /\ 0 < Arc(1)
    /\ Arc(1) < Arc(2)
    /\ ret.op = "generate_path"

\* C9 as stated: on an all-zero table map(u) returns 0, whatever u and N
C9_MapOfZeroTableIsZero ==
    (ret.op = "map" /\ TableAllZero) =>
        /\ ret.value.result.kind = "value"
        /\ ret.value.result.num = 0

-----------------------------------------------------------------------------
(* Properties of from_mesh: U coordinates (SpecMesh) *)

\* C11 as stated: a mesh with a two-component UV attribute, one UV per
\* vertex, yields u_coords of length V whose entry j is the first component
\* of UV j; u_coords is empty only when the mesh has no UVs.
C11_UCoordsFromUVs ==
    mesh_pc = "built" =>
        /\ in_mesh.uv = "Float32x2" =>
              /\ Len(shape.u_coords) = in_mesh.vertex_count
              /\ \A j \in 0..(in_mesh.vertex_count - 1) :
                    shape.u_coords[j + 1] = <<"u", j>>
        /\ Len(shape.u_coords) = 0 => in_mesh.uv = "none"

-----------------------------------------------------------------------------
(* Properties of the sampled lengths (SpecCurve) *)

\* the chord lengths between the positions at t = 0, 1/10, ..., k/10, summed
\* (positions times 10^3)
RECURSIVE CumulativeChord(_, _)
CumulativeChord(points, k) ==
    IF k = 0 THEN 0
    ELSE CumulativeChord(points, k - 1)
            + ChordLength(PositionScaled(points, k, 10),
                          PositionScaled(points, k - 1, 10))

\* C12 as stated: after new, sampled_lengths is the nondecreasing table of
\* the 10+1 cumulative chord lengths at t = 0, 1/10, ..., 1, first entry 0;
\* sample(k/10) is the k-th cumulative chord length for every k in 0..10;
\* sample(0) = sampled_lengths[0] = 0 and sample(1) = the last entry.
C12_SampledLengthsTable ==
    ret.op # "none" =>
        LET s == curve.sampled_lengths
        IN  /\ Len(s) = 10 + 1
            /\ s[1] = 0
            /\ \A k \in 1..(Len(s) - 1) : s[k] <= s[k + 1]
            /\ \A k \in 0..10 : s[k + 1] = CumulativeChord(curve.points, k)
            /\ \A k \in 0..10 :
                    LET v == Sample(curve, k, 10)
                    IN  /\ v.kind = "value"
                        /\ v.num = CumulativeChord(curve.points, k) * v.den
            /\ (ret.op = "sample" /\ ret.arg[1] = 0) =>
                    /\ ret.value.kind = "value"
                    /\ ret.value.num = 0
            /\ (ret.op = "sample" /\ ret.arg[1] = ret.arg[2]) =>
                    /\ ret.value.kind = "value"
                    /\ ret.value.num = s[Len(s)] * ret.value.den

-----------------------------------------------------------------------------
(* Properties of the vertex loop of extrude (SpecExtrude) *)

\* slot k (from 1) is slot i*V + j of the code: its path point and vertex
SlotPoint(k) == path[((k - 1) \div NumV) + 1]
SlotVertex(k) == ((k - 1) % NumV) + 1

HasUCoords == Len(shape.u_coords) # 0

\* the values extrude.rs:105-109 store at slot k
SlotPosition(k) ==
    <<"local_to_world", SlotPoint(k).position, SlotPoint(k).rotation,
      shape.vertices[SlotVertex(k)]>>
SlotNormal(k) ==
    <<"local_to_world_direction", SlotPoint(k).rotation, shape.normals[SlotVertex(k)]>>
SlotUV(k) == <<shape.u_coords[SlotVertex(k)], SlotPoint(k).v_coordinate>>

\* while the loops run: the slots of the rings done hold their values, the
\* others still hold the zeros of the allocation
SlotsWhileRunning ==
    pc \in {"fill", "stitch", "done"} =>
        /\ Len(mesh_vertices) = NumV * NumL
        /\ Len(mesh_normals) = NumV * NumL
        /\ Len(mesh_uvs) = NumV * NumL
        /\ \A k \in 1..(NumV * NumL) :
              IF k <= ring_i * NumV
              THEN /\ mesh_vertices[k] = SlotPosition(k)
                   /\ mesh_normals[k] = SlotNormal(k)
                   /\ mesh_uvs[k] = IF HasUCoords THEN SlotUV(k) ELSE Zero2
              ELSE /\ mesh_vertices[k] = Zero3
                   /\ mesh_normals[k] = Zero3
                   /\ mesh_uvs[k] = Zero2
        /\ pc \in {"stitch", "done"} => ring_i = NumL

\* the returned mesh: positions and normals in every slot, the UV attribute
\* if and only if u_coords is non-empty
SlotsReturned ==
    pc = "done" =>
        /\ Len(out_mesh.positions) = NumV * NumL
        /\ Len(out_mesh.normals) = NumV * NumL
        /\ \A k \in 1..(NumV * NumL) :
              /\ out_mesh.positions[k] = SlotPosition(k)
              /\ out_mesh.normals[k] = SlotNormal(k)
        /\ out_mesh.has_uvs <=> HasUCoords
        /\ out_mesh.has_uvs =>
              /\ Len(out_mesh.uvs) = NumV * NumL
              /\ \A k \in 1..(NumV * NumL) : out_mesh.uvs[k] = SlotUV(k)

\* a step changes the vertex buffers only in the slots of the one ring
\* ring_i, and then moves on to the next ring
SlotWrittenOnce ==
    (pc \in {"fill", "stitch", "done"} /\
     <<mesh_vertices, mesh_normals, mesh_uvs>>' # <<mesh_vertices, mesh_normals, mesh_uvs>>) =>
        /\ pc = "fill" /\ pc' = "fill"
        /\ ring_i' = ring_i + 1
        /\ \A k \in 1..(NumV * NumL) :
              ~InRing(k, ring_i, NumV) =>
                  /\ mesh_vertices'[k] = mesh_vertices[k]
                  /\ mesh_normals'[k] = mesh_normals[k]
                  /\ mesh_uvs'[k] = mesh_uvs[k]

\* C13: slot i*V + j of the output holds local_to_world of vertex j and
\* local_to_world_direction of normal j under path point i; the returned
\* mesh has the UV attribute iff u_coords is non-empty, its slot i*V + j
\* being (u_coords[j], v_coordinate of point i); each slot is written once;
\* positions and normals are always present.
C13_VertexSlots ==
    [](SlotsWhileRunning /\ SlotsReturned) /\ [][SlotWrittenOnce]_vars

C13_Witness ==
    /\ pc = "done"
    /\ NumV = 4
    /\ NumL = 3
    /\ out_mesh.has_uvs
    /\ out_mesh.uvs[4 * 2 + 3 + 1] = <<<<"u", 3>>, <<"v", 2>>>>
    /\ out_mesh.positions[4 * 1 + 2 + 1]
            = <<"local_to_world", <<"position", 1>>, <<"rotation", 1>>, <<"vertex", 2>>>>
    /\ out_mesh.normals[4 * 1 + 1]
            = <<"local_to_world_direction", <<"rotation", 1>>, <<"normal", 0, 3>>>>

-----------------------------------------------------------------------------
(* Properties of the cap slots in the returned index buffer (SpecExtrude) *)

\* how many zero entries s starts with, and ends with
LeadingZeros(s) ==
    CHOOSE n \in 0..Len(s) : AllZero(s, 1, n) /\ (n < Len(s) => s[n + 1] # 0)
TrailingZeros(s) ==
    CHOOSE n \in 0..Len(s) :
        AllZero(s, Len(s) - n + 1, Len(s)) /\ (n < Len(s) => s[Len(s) - n] # 0)

\* the quads of the stitching, all of them, in the sequence raw
AllQuadsWritten(raw) == \A q \in 0..(NumE * NumS - 1) : QuadWritten(raw, q)

\* C14 as stated: in the returned index buffer the 6*F zero cap slots are
\* the trailing entries, the 6*E*S stitching indices are a prefix (in the
\* order written or reversed), and dropping the trailing zeros removes
\* exactly the cap slots.
C14_CapSlotsTrail ==
    pc = "done" =>
        LET out == out_mesh.indices
            written == SubSeq(out, 1, 6 * NumE * NumS)
        IN  /\ Len(out) = 6 * NumE * NumS + 6 * NumF
            /\ AllZero(out, 6 * NumE * NumS + 1, Len(out))
            /\ AllQuadsWritten(written) \/ AllQuadsWritten(Reverse(written))
            /\ TrailingZeros(out) = 6 * NumF

\* C14 amended: in the returned index buffer the 6*F zero cap slots are the
\* leading entries, the 6*E*S stitching indices are the suffix (the written
\* entries reversed), and dropping the leading zeros removes exactly the
\* cap slots.
C14_CapSlotsLead ==
    pc = "done" =>
        LET out == out_mesh.indices
        IN  /\ Len(out) = 6 * NumE * NumS + 6 * NumF
            /\ AllZero(out, 1, 6 * NumF)
            /\ AllQuadsWritten(Reverse(out))
            /\ LeadingZeros(out) = 6 * NumF

C14_Witness ==
    /\ pc = "done"
    /\ IsSquare
    /\ NumL = 3
    /\ LeadingZeros(out_mesh.indices) = 36
    /\ TrailingZeros(out_mesh.indices) = 0
    /\ Len(out_mesh.indices) = 84

-----------------------------------------------------------------------------
(* Properties of the write cursor and the index values (SpecExtrude) *)

\* the inputs C15 is about: V >= 1, every edge index < V, L >= 1
EdgesInRange ==
    /\ NumV >= 1
    /\ NumL >= 1
    /\ \A k \in 1..Len(shape.edges) : shape.edges[k] < NumV

ValuesInRange(indices) ==
    \A k \in 1..Len(indices) : 0 <= indices[k] /\ indices[k] < NumV * NumL

\* C15 as stated: on these inputs tri_index stays strictly below
\* index_count, no write is out of bounds, and every value of the returned
\* index buffer is < V*L.
C15_CursorBelowIndexCount ==
    EdgesInRange =>
        /\ failure # "index out of bounds"
        /\ pc \in {"stitch", "done"} =>
              tri_index < IndexCount(shape, Segments(path))
        /\ pc = "done" => ValuesInRange(out_mesh.indices)

\* the cursor against the allocation, in every state of the index loop
CursorInBounds ==
    (EdgesInRange /\ pc \in {"stitch", "done"}) =>
        /\ Len(mesh_indices) = IndexCount(shape, Segments(path))
        /\ tri_index <= Len(mesh_indices)
        /\ NumF >= 1 => tri_index < Len(mesh_indices)
        /\ pc = "done" => ValuesInRange(out_mesh.indices)

\* no step ends in an out-of-bounds panic, and a step that moves the cursor
\* has written the six entries from the old cursor on, all of them allocated
WritesInBounds ==
    EdgesInRange =>
        /\ failure' # "index out of bounds"
        /\ (pc = "stitch" /\ tri_index' # tri_index) =>
              /\ tri_index' = tri_index + 6
              /\ tri_index + 5 < Len(mesh_indices)
              /\ \A k \in 1..Len(mesh_indices) :
                    mesh_indices'[k] # mesh_indices[k] =>
                        tri_index < k /\ k <= tri_index + 6

\* C15 amended: on these inputs every write of the index loop is at a
\* cursor below index_count, the cursor never exceeds index_count and stays
\* strictly below it when face_indices is non-empty (with no face indices
\* both are 0), and every value of the returned index buffer is < V*L.
C15_WritesInBounds == [](CursorInBounds) /\ [][WritesInBounds]_vars

C15_Witness ==
    /\ pc = "done"
    /\ EdgesInRange
    /\ IsSquare
    /\ NumL = 3
    /\ tri_index = 48
    /\ Len(out_mesh.indices) = 84
    /\ \E k \in 1..Len(out_mesh.indices) : out_mesh.indices[k] = NumV * NumL - 1

====
